---- MODULE Spec2Model ----
(***************************************************************************)
(* The port-template tree store (hooks/usePortTemplate.ts), the header's   *)
(* add-root handler (components/template/PortTemplateHeader.tsx) and the   *)
(* localStorage persistence of the tree as JSON text.                      *)
(*                                                                         *)
(* JavaScript values are records tagged with their type, so that a value   *)
(* read back from storage may be anything JSON.parse can return.  JSON     *)
(* text is a sequence of tokens; JSONstringify writes it and JSONparse     *)
(* reads it with a recursive-descent parser.  Property enumeration order   *)
(* of objects is not modelled: objects are functions from keys to values   *)
(* and JSONstringify writes the keys in the order of PropertyOrder.        *)
(***************************************************************************)
EXTENDS Integers, Sequences, FiniteSets, TLC

(***************************************************************************)
(* Bounds of the model.                                                    *)
(***************************************************************************)
MaxIds == 3
MaxSteps == 3
MaxOpsSteps == 5
MaxUISteps == 3

(***************************************************************************)
(* JavaScript values.                                                      *)
(***************************************************************************)
Undefined == [type |-> "undefined"]
Null == [type |-> "null"]
Str(s) == [type |-> "string", str |-> s]
Num(n) == [type |-> "number", num |-> n]
Bool(b) == [type |-> "boolean", bool |-> b]
Arr(items) == [type |-> "array", items |-> items]
Obj(props) == [type |-> "object", props |-> props]
NoProps == [k \in {} |-> Undefined]

\* A string that holds JSON text: the sequence of its tokens.
Text(tokens) == [type |-> "string", text |-> tokens]

\* The completion of an expression that throws.
TypeError == [type |-> "throw", error |-> "TypeError"]

\* v[k] for an object or a primitive v (a missing property reads undefined).
Get(v, k) == IF v.type = "object" /\ k \in DOMAIN v.props THEN v.props[k] ELSE Undefined

\* The own properties { ...v } copies: those of an object, none of a primitive.
Spread(v) == IF v.type = "object" THEN v.props ELSE NoProps

\* { ...a, ...b } on property maps: the properties of b win.
Merge(a, b) == [k \in (DOMAIN a) \cup (DOMAIN b) |-> IF k \in DOMAIN b THEN b[k] ELSE a[k]]

\* { ...v, [k]: x }
With(v, k, x) == Obj(Merge(Spread(v), [j \in {k} |-> x]))

\* v || false, as a boolean
OrFalse(v) == v = Bool(TRUE)

\* The fields of TreeNodeType, in the order of the declaration.
PropertyOrder == <<"id", "value", "label", "children", "readOnly", "isLast">>

\* A TreeNodeType literal { id, label, value, children }.
TreeNodeType(id, label, value, children) ==
    Obj([id |-> Str(id), value |-> Str(value), label |-> Str(label), children |-> Arr(children)])

(***************************************************************************)
(* JSON text.                                                              *)
(***************************************************************************)
Punct(c) == <<"punct", c>>
StringToken(s) == <<"string", s>>
NumberToken(n) == <<"number", n>>
Literal(w) == <<"literal", w>>
\* Characters that start no JSON value and belong to none.
Junk(w) == <<"junk", w>>

RECURSIVE JSONstringify(_), stringifyItems(_, _), stringifyProps(_, _, _)

\* JSON.stringify(v): the text of v.
JSONstringify(v) ==
    CASE v.type = "array" -> <<Punct("[")>> \o stringifyItems(v.items, 1) \o <<Punct("]")>>
      [] v.type = "object" -> <<Punct("{")>> \o stringifyProps(v.props, 1, TRUE) \o <<Punct("}")>>
      [] v.type = "string" -> <<StringToken(v.str)>>
      [] v.type = "number" -> <<NumberToken(v.num)>>
      [] v.type = "boolean" -> <<Literal(IF v.bool THEN "true" ELSE "false")>>
      [] OTHER -> <<Literal("null")>>

\* The elements of an array from index i on, separated by commas.
stringifyItems(items, i) ==
    IF i > Len(items) THEN <<>>
    ELSE (IF i > 1 THEN <<Punct(",")>> ELSE <<>>)
         \o JSONstringify(items[i]) \o stringifyItems(items, i + 1)

\* Mutation: the optional fields readOnly and isLast are not written.
stringifyProps_required(props, i, first) ==
    IF i > 4 THEN <<>>
    ELSE LET k == PropertyOrder[i] IN
         IF k \in DOMAIN props /\ props[k] # Undefined
         THEN (IF first THEN <<>> ELSE <<Punct(",")>>)
              \o <<StringToken(k), Punct(":")>> \o JSONstringify(props[k])
              \o stringifyProps(props, i + 1, FALSE)
         ELSE stringifyProps(props, i + 1, first)

\* The members of an object from key number i on; a property whose value is
\* undefined is left out.
stringifyProps(props, i, first) ==
    IF i > Len(PropertyOrder) THEN <<>>
    ELSE LET k == PropertyOrder[i] IN
         IF k \in DOMAIN props /\ props[k] # Undefined
         THEN (IF first THEN <<>> ELSE <<Punct(",")>>)
              \o <<StringToken(k), Punct(":")>> \o JSONstringify(props[k])
              \o stringifyProps(props, i + 1, FALSE)
         ELSE stringifyProps(props, i + 1, first)

SyntaxError == [ok |-> FALSE, value |-> Undefined, next |-> 0]
Parsed(v, n) == [ok |-> TRUE, value |-> v, next |-> n]

RECURSIVE parseValue(_, _), parseElements(_, _, _), parseMembers(_, _, _)

\* One JSON value starting at token i of t.
parseValue(t, i) ==
    IF i > Len(t) THEN SyntaxError
    ELSE LET tok == t[i] IN
         CASE tok[1] = "string" -> Parsed(Str(tok[2]), i + 1)
           [] tok[1] = "number" -> Parsed(Num(tok[2]), i + 1)
           [] tok = Literal("true") -> Parsed(Bool(TRUE), i + 1)
           [] tok = Literal("false") -> Parsed(Bool(FALSE), i + 1)
           [] tok = Literal("null") -> Parsed(Null, i + 1)
           [] tok = Punct("[") ->
                IF i + 1 <= Len(t) /\ t[i + 1] = Punct("]")
                THEN Parsed(Arr(<<>>), i + 2)
                ELSE parseElements(t, i + 1, <<>>)
           [] tok = Punct("{") ->
                IF i + 1 <= Len(t) /\ t[i + 1] = Punct("}")
                THEN Parsed(Obj(NoProps), i + 2)
                ELSE parseMembers(t, i + 1, NoProps)
           [] OTHER -> SyntaxError

\* value ( "," value )* "]" starting at token i, after the elements acc.
parseElements(t, i, acc) ==
    LET r == parseValue(t, i) IN
    IF ~r.ok \/ r.next > Len(t) THEN SyntaxError
    ELSE IF t[r.next] = Punct(",") THEN parseElements(t, r.next + 1, Append(acc, r.value))
    ELSE IF t[r.next] = Punct("]") THEN Parsed(Arr(Append(acc, r.value)), r.next + 1)
    ELSE SyntaxError

\* string ":" value ( "," string ":" value )* "}" starting at token i, after
\* the members acc; a repeated key keeps its last value.
parseMembers(t, i, acc) ==
    IF i + 1 > Len(t) THEN SyntaxError
    ELSE IF t[i][1] # "string" \/ t[i + 1] # Punct(":") THEN SyntaxError
    ELSE LET r == parseValue(t, i + 2)
             props == Merge(acc, [j \in {t[i][2]} |-> r.value])
         IN IF ~r.ok \/ r.next > Len(t) THEN SyntaxError
            ELSE IF t[r.next] = Punct(",") THEN parseMembers(t, r.next + 1, props)
            ELSE IF t[r.next] = Punct("}") THEN Parsed(Obj(props), r.next + 1)
            ELSE SyntaxError

\* JSON.parse(text): the value, or ok = FALSE when it throws a SyntaxError.
JSONparse(text) ==
    LET r == parseValue(text, 1) IN
    IF r.ok /\ r.next = Len(text) + 1 THEN r ELSE SyntaxError


(***************************************************************************)
(* Reading a tree: the nodes a traversal of the children arrays meets.     *)
(***************************************************************************)
RECURSIVE NodesOf(_)
\* The elements of the array nodes and of every children array below them.
NodesOf(nodes) ==
    IF nodes.type # "array" THEN {}
    ELSE UNION {{nodes.items[i]} \cup NodesOf(Get(nodes.items[i], "children")) :
                i \in DOMAIN nodes.items}

\* The ids (strings) of the nodes of the tree.
NodeIds(nodes) == {Get(n, "id").str : n \in {m \in NodesOf(nodes) : Get(m, "id").type = "string"}}

(***************************************************************************)
(* usePortTemplate: the three recursive rewrites of the tree.  A call of   *)
(* .map or .filter on a value that is no array throws a TypeError, which   *)
(* ends the whole rewrite.                                                 *)
(***************************************************************************)
\* The array of the mapped elements, or the TypeError one of them threw.
Mapped(elems) == IF \E i \in DOMAIN elems : elems[i] = TypeError THEN TypeError ELSE Arr(elems)

\* Mutation: a generator that returns the same identifier every time.
uuidv4_fixed(n) == "mock-uuid-1234"

\* uuidv4(): the n-th identifier the generator returns.
uuidv4(n) == "uuid-" \o ToString(n)

RECURSIVE addNode_updateTree(_, _, _)
\* Mutation: [newNode, ...node.children].
addNode_updateTree_first(nodes, parentId, newNode) ==
    IF nodes.type # "array" THEN TypeError
    ELSE Mapped([i \in DOMAIN nodes.items |->
            LET node == nodes.items[i] IN
            IF Get(node, "id") = Str(parentId)
            THEN IF Get(node, "children").type # "array" THEN TypeError
                 ELSE With(node, "children", Arr(<<newNode>> \o Get(node, "children").items))
            ELSE LET sub == addNode_updateTree(Get(node, "children"), parentId, newNode) IN
                 IF sub = TypeError THEN TypeError ELSE With(node, "children", sub)])

addNode_updateTree(nodes, parentId, newNode) ==
    IF nodes.type # "array" THEN TypeError
    ELSE Mapped([i \in DOMAIN nodes.items |->
            LET node == nodes.items[i] IN
            IF Get(node, "id") = Str(parentId)
            THEN IF Get(node, "children").type # "array" THEN TypeError
                 ELSE With(node, "children", Arr(Append(Get(node, "children").items, newNode)))
            ELSE LET sub == addNode_updateTree(Get(node, "children"), parentId, newNode) IN
                 IF sub = TypeError THEN TypeError ELSE With(node, "children", sub)])

\* Mutation: the filter is applied to the roots only.
deleteNode_updateTree_roots(nodes, nodeId) ==
    IF nodes.type # "array" THEN TypeError
    ELSE Arr(SelectSeq(nodes.items, LAMBDA n : Get(n, "id") # Str(nodeId)))

RECURSIVE deleteNode_updateTree(_, _)
\* Mutation: nodes.splice(nodes.findIndex(n => n.id === nodeId), 1): an id
\* that is not found gives the index -1, and the last node is removed.
deleteNode_updateTree_splice(nodes, nodeId) ==
    IF nodes.type # "array" THEN TypeError
    ELSE LET found == \E i \in DOMAIN nodes.items : Get(nodes.items[i], "id") = Str(nodeId)
             kept == IF found THEN SelectSeq(nodes.items, LAMBDA n : Get(n, "id") # Str(nodeId))
                     ELSE SubSeq(nodes.items, 1, Len(nodes.items) - 1)
         IN Mapped([i \in DOMAIN kept |->
               LET sub == deleteNode_updateTree(Get(kept[i], "children"), nodeId) IN
               IF sub = TypeError THEN TypeError ELSE With(kept[i], "children", sub)])

deleteNode_updateTree(nodes, nodeId) ==
    IF nodes.type # "array" THEN TypeError
    ELSE LET kept == SelectSeq(nodes.items, LAMBDA n : Get(n, "id") # Str(nodeId)) IN
         Mapped([i \in DOMAIN kept |->
            LET sub == deleteNode_updateTree(Get(kept[i], "children"), nodeId) IN
            IF sub = TypeError THEN TypeError ELSE With(kept[i], "children", sub)])

RECURSIVE updateNode_updateTree(_, _, _)
\* Mutation: the node is replaced by the one given, n.id === nodeId ? node : ...
updateNode_updateTree_replace(nodes, nodeId, node) ==
    IF nodes.type # "array" THEN TypeError
    ELSE Mapped([i \in DOMAIN nodes.items |->
            LET n == nodes.items[i] IN
            IF Get(n, "id") = Str(nodeId)
            THEN node
            ELSE LET sub == updateNode_updateTree(Get(n, "children"), nodeId, node) IN
                 IF sub = TypeError THEN TypeError ELSE With(n, "children", sub)])

\* Mutation: the fields of the node in the tree win, { ...node, ...n }.
updateNode_updateTree_keep(nodes, nodeId, node) ==
    IF nodes.type # "array" THEN TypeError
    ELSE Mapped([i \in DOMAIN nodes.items |->
            LET n == nodes.items[i] IN
            IF Get(n, "id") = Str(nodeId)
            THEN Obj(Merge(Spread(node), Spread(n)))
            ELSE LET sub == updateNode_updateTree(Get(n, "children"), nodeId, node) IN
                 IF sub = TypeError THEN TypeError ELSE With(n, "children", sub)])

\* Mutation: the rewrite goes on below a node it matched.
updateNode_updateTree_below(nodes, nodeId, node) ==
    IF nodes.type # "array" THEN TypeError
    ELSE Mapped([i \in DOMAIN nodes.items |->
            LET n == nodes.items[i]
                sub == updateNode_updateTree(Get(n, "children"), nodeId, node)
            IN IF sub = TypeError THEN TypeError
               ELSE IF Get(n, "id") = Str(nodeId)
                    THEN Obj(Merge(Spread(With(n, "children", sub)), Spread(node)))
                    ELSE With(n, "children", sub)])

\* Mutation: the merged node loses its children, { ...n, ...node, children: [] }.
updateNode_updateTree_leaf(nodes, nodeId, node) ==
    IF nodes.type # "array" THEN TypeError
    ELSE Mapped([i \in DOMAIN nodes.items |->
            LET n == nodes.items[i] IN
            IF Get(n, "id") = Str(nodeId)
            THEN With(Obj(Merge(Spread(n), Spread(node))), "children", Arr(<<>>))
            ELSE LET sub == updateNode_updateTree(Get(n, "children"), nodeId, node) IN
                 IF sub = TypeError THEN TypeError ELSE With(n, "children", sub)])

\* Mutation: the children given are added after those the node has.
updateNode_updateTree_append(nodes, nodeId, node) ==
    IF nodes.type # "array" THEN TypeError
    ELSE Mapped([i \in DOMAIN nodes.items |->
            LET n == nodes.items[i] IN
            IF Get(n, "id") = Str(nodeId)
            THEN IF Get(n, "children").type = "array" /\ Get(node, "children").type = "array"
                 THEN With(Obj(Merge(Spread(n), Spread(node))), "children",
                           Arr(Get(n, "children").items \o Get(node, "children").items))
                 ELSE Obj(Merge(Spread(n), Spread(node)))
            ELSE LET sub == updateNode_updateTree(Get(n, "children"), nodeId, node) IN
                 IF sub = TypeError THEN TypeError ELSE With(n, "children", sub)])

updateNode_updateTree(nodes, nodeId, node) ==
    IF nodes.type # "array" THEN TypeError
    ELSE Mapped([i \in DOMAIN nodes.items |->
            LET n == nodes.items[i] IN
            IF Get(n, "id") = Str(nodeId)
            THEN Obj(Merge(Spread(n), Spread(node)))
            ELSE LET sub == updateNode_updateTree(Get(n, "children"), nodeId, node) IN
                 IF sub = TypeError THEN TypeError ELSE With(n, "children", sub)])

\* Mutation: [{ id, value: "", label: "root", children: [] }, ...tree]
PortTemplateHeader_newTree_first(nodes, id) ==
    IF nodes.type # "array" THEN TypeError
    ELSE Arr(<<TreeNodeType(id, "root", "", <<>>)>> \o nodes.items)

\* PortTemplateHeader, the add button: [...tree, { id, value: "", label: "root", children: [] }]
PortTemplateHeader_newTree(nodes, id) ==
    IF nodes.type # "array" THEN TypeError
    ELSE Arr(Append(nodes.items, TreeNodeType(id, "root", "", <<>>)))

(***************************************************************************)
(* localStorage: a map from keys to texts.                                 *)
(***************************************************************************)
NoItems == [k \in {} |-> <<>>]
getItem(items, key) == IF key \in DOMAIN items THEN Text(items[key]) ELSE Null
setItem(items, key, text) == [k \in (DOMAIN items) \cup {key} |-> IF k = key THEN text ELSE items[k]]
removeItem(items, key) == [k \in (DOMAIN items) \ {key} |-> items[k]]

\* Mutation: if (savedTree !== null).
Truthy_notNull(savedTree) == savedTree # Null

\* if (savedTree): null and the empty string are falsy.
Truthy(savedTree) == savedTree # Null /\ savedTree # Text(<<>>)


(***************************************************************************)
(* Inputs.                                                                 *)
(***************************************************************************)
\* What the user types into a node's input.
Values == {"", "x"}

\* Trees of the tests: a root with a child and a grandchild, and a saved root.
NestedTree ==
    Arr(<<TreeNodeType("root-1", "root", "root",
            <<TreeNodeType("child-1", "child", "child",
                <<TreeNodeType("grandchild-1", "grandchild", "grandchild", <<>>)>>)>>)>>)
SavedTree == Arr(<<TreeNodeType("saved-1", "saved-root", "saved value", <<>>)>>)

\* Hand-authored data in which two siblings, and a child of one, carry the same id.
DuplicateTree ==
    Arr(<<TreeNodeType("dup", "root", "first", <<TreeNodeType("dup", "child", "nested", <<>>)>>),
          With(TreeNodeType("dup", "root", "second", <<>>), "readOnly", Bool(TRUE))>>)

\* The trees setTree is called with.
SampleTrees == {SavedTree, DuplicateTree}

\* A stored tree in which two nodes that are not siblings share an id, the
\* second of them read-only.
CousinTree ==
    Arr(<<TreeNodeType("left", "root", "", <<TreeNodeType("dup", "child", "first", <<>>)>>),
          TreeNodeType("right", "root", "",
             <<With(TreeNodeType("dup", "child", "second", <<>>), "readOnly", Bool(TRUE))>>)>>)

\* The texts found under "treeData" when the page is opened: the empty string,
\* not-valid-json, a text cut short, texts of values that are no tree (null, 5,
\* {}, [5]), and the texts of trees.
StoredTexts ==
    { <<>>,
      <<Junk("not-valid-json")>>,
      <<Punct("["), Punct("{"), StringToken("id")>>,
      <<Literal("null")>>,
      <<NumberToken("5")>>,
      <<Punct("{"), Punct("}")>>,
      <<Punct("["), NumberToken("5"), Punct("]")>>,
      JSONstringify(Arr(<<>>)),
      JSONstringify(NestedTree),
      JSONstringify(DuplicateTree) }

\* The ids a caller passes: those of the tree and one that names no node.
TargetIds(nodes) == NodeIds(nodes) \cup {"non-existent-id"}

\* The nodes updateNode is called with by TreeNode and Toolbar alone.
NodeEdits(nodes, nodeId) ==
    {With(n, "value", Str(v)) : n \in {m \in NodesOf(nodes) : Get(m, "id") = Str(nodeId)}, v \in Values}
    \cup {With(n, "readOnly", Bool(~OrFalse(Get(n, "readOnly")))) :
            n \in {m \in NodesOf(nodes) : Get(m, "id") = Str(nodeId)}}

\* The nodes updateNode is called with for nodeId: as TreeNode builds them
\* ({ ...node, value: val }), as Toolbar builds them ({ ...node, readOnly: checked }),
\* and as the tests do (a value alone, a whole node).
UpdateData(nodes, nodeId) ==
    NodeEdits(nodes, nodeId)
    \cup {Obj([value |-> Str("new-value")]),
          TreeNodeType("test", "test", "test", <<>>)}

\* Nodes updateNode is called with that carry children and nothing else
\* (Partial<TreeNodeType>): no child, a new child, a child with the id nodeId.
ChildPatches(nodeId) ==
    {Obj([children |-> Arr(<<>>)]),
     Obj([children |-> Arr(<<TreeNodeType("new-child", "child", "", <<>>)>>)]),
     Obj([children |-> Arr(<<TreeNodeType(nodeId, "child", "inner", <<>>)>>)])}

(***************************************************************************)
(* State.                                                                  *)
(***************************************************************************)
VARIABLES
    tree,           \* useState<TreeNodeType[]>([]): the state React holds
    rendered,       \* the tree of the last render: what the handlers' closures read
    activeNodeId,   \* useState<string | null>(null)
    localStorage,   \* the browser's storage: key -> text
    uuidCounter,    \* how many identifiers uuidv4 has returned
    pc,             \* "constructed" until the load effect has run, then "ready"
    out,            \* what the last handler showed, logged and threw
    call,           \* history: the last handler and its arguments
    before,         \* history: the state the last handler started in
    saved,          \* history: the last write to "treeData" and the tree it wrote
    steps,          \* the number of handler calls still to be explored
    ui,             \* the components on the screen and their own state, or Headless
    inline          \* the store written inline in PortTemplate.tsx, or NoStore

vars == <<tree, rendered, activeNodeId, localStorage, uuidCounter, pc, out, call, before, saved, steps,
          ui, inline>>

\* No component is rendered: the hook is called on its own (renderHook).
Headless == [type |-> "headless"]

\* The hook is the only store there is.
NoStore == [type |-> "none"]

\* The components rendered: the event that was handled last and the
\* component it came from, and the state each TreeNode (fieldValue) and each
\* ToggleSwitch (isOn) keeps, by the key of the TreeNode: the ids from the
\* root down to it.
Screen(what, key, fieldValue, isOn) ==
    [type |-> "screen", event |-> what, key |-> key, fieldValue |-> fieldValue, isOn |-> isOn]

RECURSIVE TreeNodes(_, _)
\* The TreeNode components of a rendered tree: the key of each and its node.
TreeNodes(nodes, above) ==
    IF nodes.type # "array" THEN {}
    ELSE UNION {LET key == Append(above, Get(nodes.items[i], "id")) IN
                {<<key, nodes.items[i]>>} \cup TreeNodes(Get(nodes.items[i], "children"), key) :
                i \in DOMAIN nodes.items}

KeysOf(nodes) == {c[1] : c \in TreeNodes(nodes, <<>>)}
NodeOf(nodes, key) == (CHOOSE c \in TreeNodes(nodes, <<>>) : c[1] = key)[2]

\* The TreeNodes that render their Toolbar: activeNodeId === node.id.
\* Mutation: a TreeNode below the active one renders its Toolbar as well.
Toolbars_below(nodes, active) ==
    {k \in KeysOf(nodes) : \E i \in DOMAIN k : k[i] = active}

Toolbars(nodes, active) == {k \in KeysOf(nodes) : Get(NodeOf(nodes, k), "id") = active}

\* The screen after an event and the render that follows it.  A component
\* that stays keeps its state, a new one starts from its props (useState(node.value),
\* useState(checked)); setFieldValue(val) and setIsOn(!isOn) act on the
\* component the event came from.
Show(screen, nodes, active, what, key, val) ==
    IF screen = Headless THEN Headless
    ELSE Screen(what, key,
            [k \in KeysOf(nodes) |->
                IF k \in DOMAIN screen.fieldValue
                THEN IF what = "type" /\ k = key THEN Str(val) ELSE screen.fieldValue[k]
                ELSE Get(NodeOf(nodes, k), "value")],
            [k \in Toolbars(nodes, active) |->
                IF k \in DOMAIN screen.isOn
                THEN IF what = "toggle" /\ k = key THEN ~screen.isOn[k] ELSE screen.isOn[k]
                ELSE OrFalse(Get(NodeOf(nodes, k), "readOnly"))])

\* No component the event came from.
NoKey == <<>>

\* The store of PortTemplate.tsx as useState leaves it, on its own storage.
PortTemplate_useState(items) ==
    [type |-> "store", tree |-> Arr(<<>>), activeNodeId |-> Null, localStorage |-> items,
     pc |-> "constructed", out |-> [threw |-> "", warn |-> "", alert |-> ""]]

\* A new PortTemplate on the storage the last one left.
PortTemplate_mount(store) ==
    IF store = NoStore THEN NoStore ELSE PortTemplate_useState(store.localStorage)

\* Its load effect: JSON.parse is not in a try, a SyntaxError leaves the
\* effect and React takes the component down.
PortTemplate_useEffect(store) ==
    IF store = NoStore THEN NoStore
    ELSE LET savedTree == getItem(store.localStorage, "treeData") IN
         IF Truthy(savedTree)
         THEN LET parsed == JSONparse(savedTree.text) IN
              IF parsed.ok
              THEN [store EXCEPT !.tree = parsed.value, !.pc = "ready"]
              ELSE [store EXCEPT !.pc = "crashed",
                                 !.out = [threw |-> "SyntaxError", warn |-> "", alert |-> ""]]
         ELSE [store EXCEPT !.pc = "ready"]

\* The tree a handler of PortTemplate.tsx sets: setTree(updateTree(tree))
\* throws before it sets anything when tree is no array.
PortTemplate_setTree(store, updated) ==
    IF updated = TypeError
    THEN [store EXCEPT !.out = [threw |-> "TypeError", warn |-> "", alert |-> ""]]
    ELSE [store EXCEPT !.tree = updated, !.out = [threw |-> "", warn |-> "", alert |-> ""]]

\* The handlers of PortTemplate.tsx, called as the hook's were (c is the
\* call, id what uuidv4 returns); a component that is down handles nothing.
PortTemplate_call(store, c, id) ==
    IF store = NoStore THEN NoStore
    ELSE IF store.pc # "ready" THEN store
    ELSE CASE c.op = "addNode" ->
                PortTemplate_setTree([store EXCEPT !.activeNodeId = Str(id)],
                   addNode_updateTree(store.tree, c.id.str, TreeNodeType(id, "child", "", <<>>)))
           [] c.op = "deleteNode" ->
                PortTemplate_setTree(store, deleteNode_updateTree(store.tree, c.id.str))
           [] c.op = "updateNode" ->
                PortTemplate_setTree(store, updateNode_updateTree(store.tree, c.id.str, c.node))
           [] c.op = "setActiveNodeId" ->
                [store EXCEPT !.activeNodeId = c.id,
                              !.out = [threw |-> "", warn |-> "", alert |-> ""]]
           [] c.op = "handleSave" ->
                [store EXCEPT
                   !.localStorage = setItem(store.localStorage, "treeData", JSONstringify(store.tree)),
                   !.out = [threw |-> "", warn |-> "", alert |-> "Template saved to localStorage!"]]
           [] c.op = "clearStorage" ->
                [store EXCEPT
                   !.localStorage = removeItem(store.localStorage, "treeData"),
                   !.tree = Arr(<<>>), !.activeNodeId = Null,
                   !.out = [threw |-> "", warn |-> "", alert |-> "Local storage cleared!"]]
           [] OTHER -> store

Quiet == [threw |-> "", warn |-> "", alert |-> ""]
Threw(e) == [threw |-> e, warn |-> "", alert |-> ""]
Warned(w) == [threw |-> "", warn |-> w, alert |-> ""]
Alerted(a) == [threw |-> "", warn |-> "", alert |-> a]

Called(op, id, node) == [op |-> op, id |-> id, node |-> node]
Snapshot == [tree |-> tree, activeNodeId |-> activeNodeId, localStorage |-> localStorage,
             call |-> call.op]

\* Every handler: it runs on a mounted store, and the history records it.
Handler(op, id, node) ==
    /\ pc = "ready"
    /\ steps > 0
    /\ steps' = steps - 1
    /\ call' = Called(op, id, node)
    /\ before' = Snapshot
    /\ saved' = IF op = "handleSave" THEN [by |-> op, tree |-> rendered]
                ELSE IF op = "clearStorage" THEN [by |-> op, tree |-> Arr(<<>>)]
                ELSE saved
    /\ pc' = pc

\* The store as constructed, before its load effect, on a storage that holds
\* one of texts under "treeData" or nothing.
Constructed(texts, budget) ==
    /\ tree = Arr(<<>>)
    /\ rendered = tree
    /\ activeNodeId = Null
    /\ localStorage \in {NoItems} \cup {setItem(NoItems, "treeData", t) : t \in texts}
    /\ uuidCounter = 0
    /\ pc = "constructed"
    /\ out = Quiet
    /\ call = Called("", Null, Undefined)
    /\ before = [tree |-> Arr(<<>>), activeNodeId |-> Null, localStorage |-> localStorage,
                 call |-> ""]
    /\ saved = [by |-> "", tree |-> Arr(<<>>)]
    /\ steps = budget

\* The hook on its own: no component, no other store.
Alone == ui = Headless /\ inline = NoStore

Init == Constructed(StoredTexts, MaxSteps) /\ Alone

\* A new store on the same storage: usePortTemplate() in a freshly mounted component.
usePortTemplate ==
    /\ pc = "ready"
    /\ steps > 0
    /\ steps' = steps - 1
    /\ tree' = Arr(<<>>)
    /\ rendered' = tree'
    /\ activeNodeId' = Null
    /\ pc' = "constructed"
    /\ out' = Quiet
    /\ call' = Called("usePortTemplate", Null, Undefined)
    /\ before' = Snapshot
    /\ ui' = Show(IF ui = Headless THEN Headless ELSE Screen("", <<>>, <<>>, <<>>),
                  tree', activeNodeId', "", NoKey, "")
    /\ inline' = PortTemplate_mount(inline)
    /\ UNCHANGED <<localStorage, uuidCounter, saved>>

\* The effect that loads "treeData" on mount.
\* Mutation: a load that finds nothing stores the empty tree.
useEffect_load_stores ==
    /\ pc = "constructed"
    /\ pc' = "ready"
    /\ LET savedTree == getItem(localStorage, "treeData") IN
       IF Truthy(savedTree)
       THEN LET parsed == JSONparse(savedTree.text) IN
            /\ localStorage' = localStorage
            /\ IF parsed.ok
               THEN tree' = parsed.value /\ out' = Quiet
               ELSE tree' = Arr(<<>>) /\ out' = Warned("Failed to parse saved tree data:")
       ELSE /\ tree' = tree /\ out' = Quiet
            /\ localStorage' = setItem(localStorage, "treeData", JSONstringify(tree))
    /\ rendered' = tree'
    /\ call' = Called("useEffect", Null, Undefined)
    /\ before' = Snapshot
    /\ ui' = Show(ui, tree', activeNodeId, "", NoKey, "")
    /\ inline' = PortTemplate_useEffect(inline)
    /\ UNCHANGED <<activeNodeId, uuidCounter, saved, steps>>

useEffect_load ==
    /\ pc = "constructed"
    /\ pc' = "ready"
    /\ LET savedTree == getItem(localStorage, "treeData") IN
       IF Truthy(savedTree)
       THEN LET parsed == JSONparse(savedTree.text) IN
            IF parsed.ok
            THEN tree' = parsed.value /\ out' = Quiet
            ELSE tree' = Arr(<<>>) /\ out' = Warned("Failed to parse saved tree data:")
       ELSE tree' = tree /\ out' = Quiet
    /\ rendered' = tree'
    /\ call' = Called("useEffect", Null, Undefined)
    /\ before' = Snapshot
    /\ ui' = Show(ui, tree', activeNodeId, "", NoKey, "")
    /\ inline' = PortTemplate_useEffect(inline)
    /\ UNCHANGED <<activeNodeId, localStorage, uuidCounter, saved, steps>>

\* Mutation: a parent that is not found makes the new node a root.
addNode_orRoot(parentId) ==
    /\ Handler("addNode", Str(parentId), Undefined)
    /\ uuidCounter < MaxIds
    /\ uuidCounter' = uuidCounter + 1
    /\ LET newNode == TreeNodeType(uuidv4(uuidCounter + 1), "child", "", <<>>)
           updated == addNode_updateTree(rendered, parentId, newNode)
       IN /\ activeNodeId' = Get(newNode, "id")
          /\ IF updated = TypeError
             THEN tree' = tree /\ out' = Threw("TypeError")
             ELSE /\ tree' = IF updated = rendered THEN Arr(Append(rendered.items, newNode)) ELSE updated
                  /\ out' = Quiet
    /\ UNCHANGED localStorage

\* Mutation: the new node becomes active only when it entered the tree.
addNode_activeOnHit(parentId) ==
    /\ Handler("addNode", Str(parentId), Undefined)
    /\ uuidCounter < MaxIds
    /\ uuidCounter' = uuidCounter + 1
    /\ LET newNode == TreeNodeType(uuidv4(uuidCounter + 1), "child", "", <<>>)
           updated == addNode_updateTree(rendered, parentId, newNode)
       IN IF updated = TypeError
          THEN tree' = tree /\ out' = Threw("TypeError") /\ activeNodeId' = activeNodeId
          ELSE /\ tree' = updated /\ out' = Quiet
               /\ activeNodeId' = IF updated = rendered THEN activeNodeId ELSE Get(newNode, "id")
    /\ UNCHANGED localStorage

\* Mutation: the tree is stored every time a node is added.
addNode_stores(parentId) ==
    /\ Handler("addNode", Str(parentId), Undefined)
    /\ uuidCounter < MaxIds
    /\ uuidCounter' = uuidCounter + 1
    /\ LET newNode == TreeNodeType(uuidv4(uuidCounter + 1), "child", "", <<>>)
           updated == addNode_updateTree(rendered, parentId, newNode)
       IN /\ activeNodeId' = Get(newNode, "id")
          /\ IF updated = TypeError
             THEN tree' = tree /\ out' = Threw("TypeError") /\ localStorage' = localStorage
             ELSE /\ tree' = updated /\ out' = Quiet
                  /\ localStorage' = setItem(localStorage, "treeData", JSONstringify(updated))

addNode(parentId) ==
    /\ Handler("addNode", Str(parentId), Undefined)
    /\ uuidCounter < MaxIds
    /\ uuidCounter' = uuidCounter + 1
    /\ LET newNode == TreeNodeType(uuidv4(uuidCounter + 1), "child", "", <<>>)
           updated == addNode_updateTree(rendered, parentId, newNode)
       IN /\ activeNodeId' = Get(newNode, "id")
          /\ IF updated = TypeError
             THEN tree' = tree /\ out' = Threw("TypeError")
             ELSE tree' = updated /\ out' = Quiet
    /\ UNCHANGED localStorage


\* Mutation: deleting the active node leaves no node active.
deleteNode_resetActive(nodeId) ==
    /\ Handler("deleteNode", Str(nodeId), Undefined)
    /\ LET updated == deleteNode_updateTree(rendered, nodeId) IN
       IF updated = TypeError
       THEN tree' = tree /\ out' = Threw("TypeError")
       ELSE tree' = updated /\ out' = Quiet
    /\ activeNodeId' = IF activeNodeId = Str(nodeId) THEN Null ELSE activeNodeId
    /\ UNCHANGED <<localStorage, uuidCounter>>

deleteNode(nodeId) ==
    /\ Handler("deleteNode", Str(nodeId), Undefined)
    /\ LET updated == deleteNode_updateTree(rendered, nodeId) IN
       IF updated = TypeError
       THEN tree' = tree /\ out' = Threw("TypeError")
       ELSE tree' = updated /\ out' = Quiet
    /\ UNCHANGED <<activeNodeId, localStorage, uuidCounter>>

updateNode(nodeId, node) ==
    /\ Handler("updateNode", Str(nodeId), node)
    /\ LET updated == updateNode_updateTree(rendered, nodeId, node) IN
       IF updated = TypeError
       THEN tree' = tree /\ out' = Threw("TypeError")
       ELSE tree' = updated /\ out' = Quiet
    /\ UNCHANGED <<activeNodeId, localStorage, uuidCounter>>

\* Mutation: the text is written only when the storage holds none.
handleSave_ifAbsent ==
    /\ Handler("handleSave", Null, Undefined)
    /\ localStorage' = IF getItem(localStorage, "treeData") = Null
                       THEN setItem(localStorage, "treeData", JSONstringify(rendered))
                       ELSE localStorage
    /\ out' = Alerted("Template saved to localStorage!")
    /\ UNCHANGED <<tree, activeNodeId, uuidCounter>>

\* Mutation: the tree is emptied once it is saved.
handleSave_andReset ==
    /\ Handler("handleSave", Null, Undefined)
    /\ localStorage' = setItem(localStorage, "treeData", JSONstringify(rendered))
    /\ tree' = Arr(<<>>)
    /\ out' = Alerted("Template saved to localStorage!")
    /\ UNCHANGED <<activeNodeId, uuidCounter>>

handleSave ==
    /\ Handler("handleSave", Null, Undefined)
    /\ localStorage' = setItem(localStorage, "treeData", JSONstringify(rendered))
    /\ out' = Alerted("Template saved to localStorage!")
    /\ UNCHANGED <<tree, activeNodeId, uuidCounter>>


\* Mutation: the state is reset and the item stays in the storage.
clearStorage_stateOnly ==
    /\ Handler("clearStorage", Null, Undefined)
    /\ localStorage' = localStorage
    /\ tree' = Arr(<<>>)
    /\ activeNodeId' = Null
    /\ out' = Alerted("Local storage cleared!")
    /\ UNCHANGED uuidCounter

clearStorage ==
    /\ Handler("clearStorage", Null, Undefined)
    /\ localStorage' = removeItem(localStorage, "treeData")
    /\ tree' = Arr(<<>>)
    /\ activeNodeId' = Null
    /\ out' = Alerted("Local storage cleared!")
    /\ UNCHANGED uuidCounter

\* Mutation: an id that names no node of the tree is not made active.
setActiveNodeId_checked(id) ==
    /\ Handler("setActiveNodeId", id, Undefined)
    /\ activeNodeId' = IF id = Null \/ id.str \in NodeIds(rendered) THEN id ELSE activeNodeId
    /\ out' = Quiet
    /\ UNCHANGED <<tree, localStorage, uuidCounter>>

setActiveNodeId(id) ==
    /\ Handler("setActiveNodeId", id, Undefined)
    /\ activeNodeId' = id
    /\ out' = Quiet
    /\ UNCHANGED <<tree, localStorage, uuidCounter>>

\* Mutation: the tree given is stored as well.
setTree_stores(nodes) ==
    /\ Handler("setTree", Null, nodes)
    /\ tree' = nodes
    /\ out' = Quiet
    /\ localStorage' = setItem(localStorage, "treeData", JSONstringify(nodes))
    /\ UNCHANGED <<activeNodeId, uuidCounter>>

setTree(nodes) ==
    /\ Handler("setTree", Null, nodes)
    /\ tree' = nodes
    /\ out' = Quiet
    /\ UNCHANGED <<activeNodeId, localStorage, uuidCounter>>

\* The header's add button: a new root at the end of the tree, made active.
PortTemplateHeader_add ==
    /\ Handler("addRoot", Null, Undefined)
    /\ uuidCounter < MaxIds
    /\ uuidCounter' = uuidCounter + 1
    /\ LET id == uuidv4(uuidCounter + 1)
           newTree == PortTemplateHeader_newTree(rendered, id)
       IN /\ activeNodeId' = Str(id)
          /\ IF newTree = TypeError
             THEN tree' = tree /\ out' = Threw("TypeError")
             ELSE tree' = newTree /\ out' = Quiet
    /\ UNCHANGED localStorage

\* handleSave on a storage that has no room for the text: setItem throws
\* QuotaExceededError, nothing catches it, and the alert is never reached.
\* Mutation: the error of setItem is caught and the alert is shown all the same.
handleSave_QuotaCaught ==
    /\ pc = "ready"
    /\ steps > 0
    /\ steps' = steps - 1
    /\ call' = Called("handleSave", Null, Undefined)
    /\ before' = Snapshot
    /\ out' = Alerted("Template saved to localStorage!")
    /\ UNCHANGED <<tree, activeNodeId, localStorage, uuidCounter, saved, pc>>

handleSave_QuotaExceeded ==
    /\ pc = "ready"
    /\ steps > 0
    /\ steps' = steps - 1
    /\ call' = Called("handleSave", Null, Undefined)
    /\ before' = Snapshot
    /\ out' = Threw("QuotaExceededError")
    /\ UNCHANGED <<tree, activeNodeId, localStorage, uuidCounter, saved, pc>>

\* A handler called from an event of its own: React renders before the next
\* event, and the next handler's closure holds the tree this one set.
Event(handler) ==
    /\ handler
    /\ rendered' = tree'
    /\ ui' = Show(ui, tree', activeNodeId', "", NoKey, "")
    /\ inline' = PortTemplate_call(inline, call', uuidv4(uuidCounter'))

\* A handler after which React has not rendered yet: the next handler is
\* called from the same render (one event, one act()) and reads the same tree.
Batched(handler) == handler /\ rendered' = rendered /\ UNCHANGED <<ui, inline>>

\* React renders the state the handlers have set.
render ==
    /\ pc = "ready"
    /\ rendered # tree
    /\ rendered' = tree
    /\ ui' = Show(ui, tree, activeNodeId, "", NoKey, "")
    /\ UNCHANGED <<tree, activeNodeId, localStorage, uuidCounter, pc, out, call, before, saved, steps,
                   inline>>

\* The whole interface of the store, on whatever the storage holds.
Next ==
    \/ usePortTemplate
    \/ useEffect_load
    \/ \E parentId \in TargetIds(tree) : Event(addNode(parentId))
    \/ \E nodeId \in TargetIds(tree) : Event(deleteNode(nodeId))
    \/ \E nodeId \in TargetIds(tree) : \E node \in UpdateData(tree, nodeId) :
          Event(updateNode(nodeId, node))
    \/ Event(handleSave)
    \/ Event(clearStorage)
    \/ \E id \in {Null} \cup {Str(i) : i \in TargetIds(tree)} : Event(setActiveNodeId(id))
    \/ \E nodes \in SampleTrees : Event(setTree(nodes))
    \/ Event(PortTemplateHeader_add)

Spec == Init /\ [][Next]_vars

\* The store on a storage that starts empty, called as the components call it:
\* no setTree with outside data, updateNode with the current node edited.
InitEmpty == Constructed({}, MaxOpsSteps) /\ Alone

NextOps ==
    \/ usePortTemplate
    \/ useEffect_load
    \/ \E parentId \in TargetIds(tree) : Event(addNode(parentId))
    \/ \E nodeId \in TargetIds(tree) : Event(deleteNode(nodeId))
    \/ \E nodeId \in NodeIds(tree) : \E node \in NodeEdits(tree, nodeId) :
          Event(updateNode(nodeId, node))
    \/ Event(handleSave)
    \/ Event(clearStorage)
    \/ \E id \in {Null} \cup {Str(i) : i \in TargetIds(tree)} : Event(setActiveNodeId(id))
    \/ Event(PortTemplateHeader_add)

SpecOps == InitEmpty /\ [][NextOps]_vars

\* The store with handlers called several at a time from one render, as in
\* act(() => { addNode(a); addNode(b); }): the ids come from the tree on screen.
NextBatch ==
    \/ useEffect_load
    \/ \E parentId \in TargetIds(rendered) : Batched(addNode(parentId))
    \/ \E nodeId \in TargetIds(rendered) : Batched(deleteNode(nodeId))
    \/ \E nodeId \in NodeIds(rendered) : \E node \in NodeEdits(rendered, nodeId) :
          Batched(updateNode(nodeId, node))
    \/ Batched(PortTemplateHeader_add)
    \/ render

SpecBatch == InitEmpty /\ [][NextBatch]_vars

\* The store on a storage that may be full when handleSave writes to it.
NextQuota ==
    \/ usePortTemplate
    \/ useEffect_load
    \/ \E parentId \in TargetIds(tree) : Event(addNode(parentId))
    \/ \E nodeId \in TargetIds(tree) : Event(deleteNode(nodeId))
    \/ Event(handleSave)
    \/ Event(handleSave_QuotaExceeded)
    \/ Event(clearStorage)
    \/ Event(PortTemplateHeader_add)

SpecQuota == InitEmpty /\ [][NextQuota]_vars

\* The store on a storage that holds a tree, with updateNode called with
\* nodes that carry children.
InitPatch ==
    Constructed({JSONstringify(NestedTree), JSONstringify(DuplicateTree)}, MaxSteps) /\ Alone

NextPatch ==
    \/ useEffect_load
    \/ \E nodeId \in TargetIds(tree) :
          \E node \in ChildPatches(nodeId) \cup NodeEdits(tree, nodeId) :
             Event(updateNode(nodeId, node))
    \/ \E nodeId \in TargetIds(tree) : Event(deleteNode(nodeId))

SpecPatch == InitPatch /\ [][NextPatch]_vars

\* An event of a component: its handler, then the render that follows.
On(what, key, val, handler) ==
    /\ handler
    /\ rendered' = tree'
    /\ ui' = Show(ui, tree', activeNodeId', what, key, val)
    /\ inline' = PortTemplate_call(inline, call', uuidv4(uuidCounter'))

\* A click on the input of a TreeNode, read-only or not.
TreeNode_onClick(key) ==
    On("click", key, "", setActiveNodeId(Get(NodeOf(rendered, key), "id")))

\* Typing in the input of a TreeNode: the browser fires no change on an
\* input that is readOnly, and none when the text stays what it was.
\* Mutation: the input is never readOnly.
TreeNode_onChange_always(key, val) ==
    LET node == NodeOf(rendered, key) IN
    /\ Str(val) # ui.fieldValue[key]
    /\ On("type", key, val, updateNode(Get(node, "id").str, With(node, "value", Str(val))))

TreeNode_onChange(key, val) ==
    LET node == NodeOf(rendered, key) IN
    /\ ~OrFalse(Get(node, "readOnly"))
    /\ Str(val) # ui.fieldValue[key]
    /\ On("type", key, val, updateNode(Get(node, "id").str, With(node, "value", Str(val))))

\* A click on the switch of a Toolbar.
\* Mutation: the switch can only be turned on, setIsOn(true).
ToggleSwitch_handleToggle_on(key) ==
    /\ key \in DOMAIN ui.isOn
    /\ LET node == NodeOf(rendered, key) IN
       On("toggle", key, "", updateNode(Get(node, "id").str, With(node, "readOnly", Bool(TRUE))))

ToggleSwitch_handleToggle(key) ==
    /\ key \in DOMAIN ui.isOn
    /\ LET node == NodeOf(rendered, key)
           newValue == ~ui.isOn[key]
       IN On("toggle", key, "",
             updateNode(Get(node, "id").str, With(node, "readOnly", Bool(newValue))))

\* The delete button and the add button of a Toolbar.
\* Mutation: every TreeNode has a delete button, active or not.
Toolbar_onDelete_any(key) ==
    On("delete", key, "", deleteNode(Get(NodeOf(rendered, key), "id").str))

Toolbar_onDelete(key) ==
    /\ key \in DOMAIN ui.isOn
    /\ On("delete", key, "", deleteNode(Get(NodeOf(rendered, key), "id").str))

Toolbar_onAdd(key) ==
    /\ key \in DOMAIN ui.isOn
    /\ On("add", key, "", addNode(Get(NodeOf(rendered, key), "id").str))

\* The page: the components on the store, on a storage that holds a tree or
\* nothing, and a caller of the store's updateNode beside them.
InitUI ==
    /\ Constructed({JSONstringify(NestedTree), JSONstringify(CousinTree)}, MaxUISteps)
    /\ ui = Screen("", <<>>, <<>>, <<>>)
    /\ inline = NoStore

NextUI ==
    \/ useEffect_load
    \/ \E key \in KeysOf(rendered) : TreeNode_onClick(key)
    \/ \E key \in KeysOf(rendered) : \E val \in Values : TreeNode_onChange(key, val)
    \/ \E key \in KeysOf(rendered) : ToggleSwitch_handleToggle(key)
    \/ \E key \in KeysOf(rendered) : Toolbar_onDelete(key)
    \/ \E key \in KeysOf(rendered) : Toolbar_onAdd(key)
    \/ On("header", NoKey, "", PortTemplateHeader_add)
    \/ On("save", NoKey, "", handleSave)
    \/ On("clear", NoKey, "", clearStorage)
    \/ \E nodeId \in NodeIds(tree) : Event(updateNode(nodeId, Obj([value |-> Str("new-value")])))

SpecUI == InitUI /\ [][NextUI]_vars

\* The hook and the store of PortTemplate.tsx side by side: each on its own
\* storage with the same text in it, the same calls made on both, the same
\* ids returned by uuidv4.
InitInline ==
    /\ Constructed(StoredTexts, MaxSteps)
    /\ ui = Headless
    /\ inline = PortTemplate_useState(localStorage)

NextInline ==
    \/ usePortTemplate
    \/ useEffect_load
    \/ \E parentId \in TargetIds(tree) : Event(addNode(parentId))
    \/ \E nodeId \in TargetIds(tree) : Event(deleteNode(nodeId))
    \/ \E nodeId \in TargetIds(tree) : \E node \in UpdateData(tree, nodeId) :
          Event(updateNode(nodeId, node))
    \/ \E id \in {Null} \cup {Str(i) : i \in TargetIds(tree)} : Event(setActiveNodeId(id))
    \/ Event(handleSave)
    \/ Event(clearStorage)

SpecInline == InitInline /\ [][NextInline]_vars

(***************************************************************************)
(* Vocabulary of the properties.                                           *)
(***************************************************************************)
\* A well-formed TreeNodeType: id, value and label strings, children an array,
\* readOnly and isLast booleans when present, and nothing else.
IsTreeNode(n) ==
    /\ n.type = "object"
    /\ {"id", "value", "label", "children"} \subseteq DOMAIN n.props
    /\ DOMAIN n.props \subseteq {"id", "value", "label", "children", "readOnly", "isLast"}
    /\ \A k \in {"id", "value", "label"} : n.props[k].type = "string"
    /\ n.props.children.type = "array"
    /\ \A k \in {"readOnly", "isLast"} \cap DOMAIN n.props : n.props[k].type = "boolean"

\* A Forest: an array of well-formed nodes, all the way down.
IsForest(v) == v.type = "array" /\ \A n \in NodesOf(v) : IsTreeNode(n)

RECURSIVE Rows(_, _)
\* The nodes of a forest in traversal order (a node, then its subtree, then
\* its next sibling), each with its fields and the id of its parent.
Rows(nodes, parent) ==
    IF nodes.type # "array" \/ nodes.items = <<>> THEN <<>>
    ELSE LET n == Head(nodes.items) IN
         <<[id |-> Get(n, "id"), parent |-> parent, value |-> Get(n, "value"),
            label |-> Get(n, "label"), readOnly |-> Get(n, "readOnly")]>>
         \o Rows(Get(n, "children"), Get(n, "id"))
         \o Rows(Arr(Tail(nodes.items)), parent)

Preorder(nodes) == Rows(nodes, Null)

\* No two nodes of the forest have the same id.
UniqueIds(nodes) ==
    LET rows == Preorder(nodes) IN
    \A i, j \in DOMAIN rows : rows[i].id = rows[j].id => i = j

\* The text under "treeData" in the storage the last handler started with.
TextBefore == getItem(before.localStorage, "treeData")

\* The last step was the load effect of a store.
Loaded == call.op = "useEffect"

(***************************************************************************)
(* C1  Round trip.  When a store is initialized on a storage whose last    *)
(* write was a handleSave, its tree equals the tree that was in memory at  *)
(* that handleSave, the empty tree included.                               *)
(***************************************************************************)
C1_RoundTrip ==
    (Loaded /\ saved.by = "handleSave") => tree = saved.tree

\* A tree with a nested child and a read-only node was saved and loaded back.
C1_Witness ==
    /\ Loaded /\ saved.by = "handleSave"
    /\ IsForest(tree)
    /\ \E n \in NodesOf(tree) : Get(n, "readOnly") = Bool(TRUE)
    /\ \E n \in NodesOf(tree) : Get(n, "children").items # <<>>

(***************************************************************************)
(* C2  Corrupt storage.  As claimed: whenever the text under "treeData"    *)
(* cannot be parsed, the load raises nothing, logs a warning, and leaves   *)
(* the tree empty and no node active.                                      *)
(***************************************************************************)
Unparseable(savedTree) == savedTree # Null /\ ~JSONparse(savedTree.text).ok

C2_AsClaimed ==
    (Loaded /\ Unparseable(TextBefore)) =>
        /\ out.threw = ""
        /\ out.warn # ""
        /\ tree = Arr(<<>>)
        /\ activeNodeId = Null

(***************************************************************************)
(* C2, amended.  Whenever the text under "treeData" cannot be parsed, the  *)
(* load raises nothing and leaves the tree empty and no node active; it    *)
(* logs a warning exactly when the text is not the empty string.           *)
(***************************************************************************)
C2_CorruptStorage ==
    (Loaded /\ Unparseable(TextBefore)) =>
        /\ out.threw = ""
        /\ (out.warn # "") <=> (TextBefore.text # <<>>)
        /\ tree = Arr(<<>>)
        /\ activeNodeId = Null

\* not-valid-json was found under "treeData" and the warning was logged.
C2_Witness ==
    /\ Loaded
    /\ TextBefore = Text(<<Junk("not-valid-json")>>)
    /\ out.warn = "Failed to parse saved tree data:"
    /\ tree = Arr(<<>>)

(***************************************************************************)
(* C3  Every stored text that is not the text of a Forest is treated as    *)
(* absent: after the load the tree is a Forest, empty when the stored      *)
(* value was not one, and nothing was raised.                              *)
(***************************************************************************)
C3_LoadYieldsForest ==
    Loaded =>
        /\ out.threw = ""
        /\ IsForest(tree)
        /\ (TextBefore # Null /\ ~(JSONparse(TextBefore.text).ok /\ IsForest(JSONparse(TextBefore.text).value)))
              => tree = Arr(<<>>)


(***************************************************************************)
(* Vocabulary of the properties of addNode, deleteNode and updateNode.     *)
(***************************************************************************)
\* The last handler was op, called on a Forest.
OnForest(op) == call.op = op /\ IsForest(before.tree)

\* The id the last call was given names a node of the tree it started with.
Hit == call.id.str \in NodeIds(before.tree)

RECURSIVE Under(_, _)
\* The ids of ids together with those of all nodes below them.
Under(rows, ids) ==
    LET more == {rows[i].id : i \in {j \in DOMAIN rows : rows[j].parent \in ids}} IN
    IF more \subseteq ids THEN ids ELSE Under(rows, ids \cup more)

\* The node of the tree with this id.
NodeById(nodes, id) == CHOOSE n \in NodesOf(nodes) : Get(n, "id") = id

\* The id the generator returned last.
LastUuid == Str(uuidv4(uuidCounter))

(***************************************************************************)
(* C4  Delete removes the subtree.  After deleteNode(N.id) on a forest     *)
(* with unique ids, the traversal of the tree is the traversal of the old  *)
(* tree without N and its descendants: every other node is there with the *)
(* same value, label, readOnly and parent, in the same order.              *)
(***************************************************************************)
C4_DeleteRemovesSubtree ==
    (OnForest("deleteNode") /\ UniqueIds(before.tree) /\ Hit) =>
        LET rows == Preorder(before.tree)
            gone == Under(rows, {call.id})
        IN /\ out.threw = ""
           /\ Preorder(tree) = SelectSeq(rows, LAMBDA r : r.id \notin gone)

\* A node with a descendant was deleted and another node is left.
C4_Witness ==
    /\ OnForest("deleteNode") /\ UniqueIds(before.tree) /\ Hit
    /\ Cardinality(Under(Preorder(before.tree), {call.id})) >= 2
    /\ Preorder(tree) # <<>>

(***************************************************************************)
(* C5  Add-child preserves siblings.  After addNode(P.id) on a forest with *)
(* unique ids the tree has exactly one node more: a node with a fresh id,  *)
(* label "child", empty value and no children, the last child of P; the    *)
(* other nodes keep value, label, readOnly, parent and order.              *)
(***************************************************************************)
C5_AddChild ==
    (OnForest("addNode") /\ UniqueIds(before.tree) /\ Hit) =>
        LET rows == Preorder(before.tree)
            rows2 == Preorder(tree)
            kids == Get(NodeById(before.tree, call.id), "children").items
            kids2 == Get(NodeById(tree, call.id), "children").items
        IN /\ out.threw = ""
           /\ LastUuid.str \notin NodeIds(before.tree)
           /\ Len(rows2) = Len(rows) + 1
           /\ SelectSeq(rows2, LAMBDA r : r.id # LastUuid) = rows
           /\ kids2 = Append(kids, TreeNodeType(LastUuid.str, "child", "", <<>>))

\* A child was added to a node that already had one, in a tree of several nodes.
C5_Witness ==
    /\ OnForest("addNode") /\ UniqueIds(before.tree) /\ Hit
    /\ Get(NodeById(before.tree, call.id), "children").items # <<>>
    /\ Len(Preorder(tree)) >= 3

(***************************************************************************)
(* C6  Update is a field merge.  As claimed: for every node T of a forest  *)
(* and every patch with a value field alone, updateNode(T.id, patch)       *)
(* changes T.value and nothing else, in T or in any other node.            *)
(***************************************************************************)
ValueOnly(node) == node.type = "object" /\ DOMAIN node.props = {"value"}

\* Between the two trees only the value of the node at place i was set.
OnlyValueOf(i, rows, rows2, value) ==
    /\ Len(rows2) = Len(rows)
    /\ \A j \in DOMAIN rows :
          rows2[j] = IF j = i THEN [rows[j] EXCEPT !.value = value] ELSE rows[j]

C6_AsClaimed ==
    (OnForest("updateNode") /\ ValueOnly(call.node) /\ Hit) =>
        /\ out.threw = ""
        /\ \A i \in DOMAIN Preorder(before.tree) :
              Preorder(before.tree)[i].id = call.id =>
                 OnlyValueOf(i, Preorder(before.tree), Preorder(tree), call.node.props.value)

(***************************************************************************)
(* C6, amended.  For every node T of a forest with unique ids and every    *)
(* patch with a value field alone, updateNode(T.id, patch) changes T.value *)
(* and nothing else, in T or in any other node.                            *)
(***************************************************************************)
C6_FieldMerge ==
    (OnForest("updateNode") /\ ValueOnly(call.node) /\ UniqueIds(before.tree) /\ Hit) =>
        /\ out.threw = ""
        /\ \A i \in DOMAIN Preorder(before.tree) :
              Preorder(before.tree)[i].id = call.id =>
                 OnlyValueOf(i, Preorder(before.tree), Preorder(tree), call.node.props.value)

\* The value of a node that has children was replaced.
C6_Witness ==
    /\ OnForest("updateNode") /\ ValueOnly(call.node) /\ UniqueIds(before.tree) /\ Hit
    /\ Get(NodeById(tree, call.id), "children").items # <<>>
    /\ tree # before.tree

(***************************************************************************)
(* C7  Miss is a no-op.  addNode, deleteNode and updateNode with an id     *)
(* that names no node of the forest raise nothing and leave the forest     *)
(* equal to what it was.                                                   *)
(***************************************************************************)
C7_MissIsNoOp ==
    ((OnForest("addNode") \/ OnForest("deleteNode") \/ OnForest("updateNode")) /\ ~Hit) =>
        /\ out.threw = ""
        /\ tree = before.tree

\* addNode missed in a tree that has nodes.
C7_Witness ==
    /\ OnForest("addNode") /\ ~Hit
    /\ before.tree.items # <<>>
    /\ tree = before.tree

(***************************************************************************)
(* C8  addNode always makes the generated id the active one; on a miss     *)
(* that id names no node of the forest, on a hit it names the new node.    *)
(***************************************************************************)
C8_AddNodeSetsActive ==
    call.op = "addNode" =>
        /\ activeNodeId = LastUuid
        /\ (IsForest(before.tree) /\ ~Hit) => activeNodeId.str \notin NodeIds(tree)
        /\ (IsForest(before.tree) /\ Hit) =>
              activeNodeId.str \in NodeIds(tree) \ NodeIds(before.tree)

\* addNode missed in a tree that has nodes, and another node was active before.
C8_Witness ==
    /\ OnForest("addNode") /\ ~Hit
    /\ before.tree.items # <<>>
    /\ before.activeNodeId # activeNodeId
    /\ activeNodeId.str \notin NodeIds(tree)

(***************************************************************************)
(* C9  Add-root.  The header's add appends one node with a fresh id, label *)
(* "root", empty value and no children after the roots of the forest,      *)
(* which stay as they are, and makes it active.  After add-root on the     *)
(* empty forest, addNode of that id gives one root with one child labelled *)
(* "child", which is active.                                               *)
(***************************************************************************)
C9_AddRoot ==
    /\ OnForest("addRoot") =>
          /\ out.threw = ""
          /\ LastUuid.str \notin NodeIds(before.tree)
          /\ Len(tree.items) = Len(before.tree.items) + 1
          /\ SubSeq(tree.items, 1, Len(before.tree.items)) = before.tree.items
          /\ tree.items[Len(tree.items)].props =
                [id |-> LastUuid, label |-> Str("root"), value |-> Str(""), children |-> Arr(<<>>)]
          /\ activeNodeId = LastUuid
    /\ (call.op = "addNode" /\ before.call = "addRoot" /\ IsForest(before.tree)
            /\ Len(before.tree.items) = 1 /\ call.id = before.activeNodeId) =>
          /\ Len(tree.items) = 1
          /\ Get(tree.items[1], "id") = call.id
          /\ Get(tree.items[1], "label") = Str("root")
          /\ Get(tree.items[1], "children").items =
                <<TreeNodeType(activeNodeId.str, "child", "", <<>>)>>
          /\ activeNodeId # call.id

\* Add-root on the empty forest and then addNode of the new root.
C9_Witness ==
    /\ call.op = "addNode" /\ before.call = "addRoot"
    /\ Len(before.tree.items) = 1 /\ call.id = before.activeNodeId
    /\ Len(Preorder(tree)) = 2

\* A root was added after the roots of a forest that had some.
C9_WitnessAppend ==
    /\ OnForest("addRoot")
    /\ before.tree.items # <<>>

(***************************************************************************)
(* C10  Unique ids.  From the empty forest and an empty storage, with a    *)
(* generator that never repeats, no two nodes of the forest have the same  *)
(* id after any sequence of add-root, addNode, deleteNode, updateNode with *)
(* the current node edited, setActiveNodeId, handleSave and clearStorage.  *)
(***************************************************************************)
C10_UniqueIds == IsForest(tree) /\ UniqueIds(tree)

\* Three nodes, one of them below another, after an update.
C10_Witness ==
    /\ call.op = "updateNode"
    /\ Len(Preorder(tree)) >= 3
    /\ \E i \in DOMAIN Preorder(tree) : Preorder(tree)[i].parent # Null

(***************************************************************************)
(* Vocabulary of the properties about the identity of nodes: a node is     *)
(* told from the others by its place, the indexes that lead to it.         *)
(***************************************************************************)
RECURSIVE PlaceIds(_, _)
\* The pairs <<place, id>> of the nodes of a forest.
PlaceIds(nodes, place) ==
    IF nodes.type # "array" THEN {}
    ELSE UNION {{<<Append(place, i), Get(nodes.items[i], "id")>>}
                \cup PlaceIds(Get(nodes.items[i], "children"), Append(place, i)) :
                i \in DOMAIN nodes.items}

\* The ids of the nodes above a place of the forest the last call started with.
Above(place) ==
    {c[2] : c \in {d \in PlaceIds(before.tree, <<>>) :
                     Len(d[1]) < Len(place) /\ d[1] = SubSeq(place, 1, Len(d[1]))}}

\* The place is below a node updateNode matched with a node that carries
\* children: what is there afterwards came with the call, it was not in the forest.
Replaced(place) ==
    /\ call.op = "updateNode"
    /\ call.node.type = "object" /\ "children" \in DOMAIN call.node.props
    /\ call.id \in Above(place)

\* Every place that holds a node of the forest before and after the last call
\* holds the same id.
SameIdInPlace ==
    \A a \in PlaceIds(before.tree, <<>>), b \in PlaceIds(tree, <<>>) :
       (a[1] = b[1] /\ ~Replaced(a[1])) => a[2] = b[2]

RECURSIVE Lines(_, _)
\* The nodes of a forest in traversal order, each with its own fields and
\* the ids of the nodes above it, from the root down.
Lines(nodes, above) ==
    IF nodes.type # "array" \/ nodes.items = <<>> THEN <<>>
    ELSE LET n == Head(nodes.items) IN
         <<[id |-> Get(n, "id"), value |-> Get(n, "value"), label |-> Get(n, "label"),
            readOnly |-> Get(n, "readOnly"), above |-> above]>>
         \o Lines(Get(n, "children"), Append(above, Get(n, "id")))
         \o Lines(Arr(Tail(nodes.items)), above)

\* The line is of a node below a node with this id.
Below(line, id) == \E k \in DOMAIN line.above : line.above[k] = id

\* The line is of a node with this id that has no node with this id above it.
Reached(line, id) == line.id = id /\ ~Below(line, id)

\* The line is of a node with this id or of a node below one.
Gone(line, id) == line.id = id \/ Below(line, id)

\* The node given to updateNode carries an id other than nodeId.
OtherId(node, nodeId) ==
    node.type = "object" /\ "id" \in DOMAIN node.props /\ node.props.id # nodeId

\* The nodes that are in the forest before and after the last call have the
\* id they had: in their place after addNode and updateNode, in their order
\* after deleteNode, and the forest is the same after the other two.
IdsKept ==
    /\ (call.op \in {"setActiveNodeId", "handleSave"}) => tree = before.tree
    /\ (OnForest("addNode") \/ OnForest("updateNode")) => SameIdInPlace
    /\ OnForest("deleteNode") =>
          LET ids == [i \in DOMAIN Lines(tree, <<>>) |-> Lines(tree, <<>>)[i].id]
              old == SelectSeq(Lines(before.tree, <<>>), LAMBDA l : ~Gone(l, call.id))
          IN ids = [i \in DOMAIN old |-> old[i].id]

(***************************************************************************)
(* C11  Ids never change.  As claimed: addNode, deleteNode,                *)
(* setActiveNodeId, handleSave and updateNode with every patch, one with   *)
(* another id included, leave the id of every node that is in the forest   *)
(* before and after equal to what it was.                                  *)
(***************************************************************************)
C11_AsClaimed ==
    (call.op \in {"addNode", "deleteNode", "setActiveNodeId", "handleSave", "updateNode"}) => IdsKept

(***************************************************************************)
(* C11, amended.  addNode, deleteNode, setActiveNodeId, handleSave and     *)
(* updateNode with a patch that has no id or the id nodeId leave the id of *)
(* every node that is in the forest before and after equal to what it was; *)
(* updateNode with a patch of another id gives that id to the nodes it     *)
(* matches and leaves the id of the others.                                *)
(***************************************************************************)
C11_IdsKept ==
    /\ (call.op \in {"addNode", "deleteNode", "setActiveNodeId", "handleSave"}) => IdsKept
    /\ (OnForest("updateNode") /\ ~OtherId(call.node, call.id)) => IdsKept
    /\ (OnForest("updateNode") /\ OtherId(call.node, call.id)) =>
          \A a \in PlaceIds(before.tree, <<>>), b \in PlaceIds(tree, <<>>) :
             (a[1] = b[1] /\ ~Replaced(a[1])) =>
                b[2] = IF a[2] = call.id /\ call.id \notin Above(a[1])
                       THEN call.node.props.id ELSE a[2]

\* updateNode was given a node with another id, and the node it names has that id now.
C11_Witness ==
    /\ OnForest("updateNode") /\ Hit
    /\ OtherId(call.node, call.id)
    /\ call.node.props.id.str \in NodeIds(tree) \ NodeIds(before.tree)
    /\ Len(Preorder(tree)) >= 2

(***************************************************************************)
(* Vocabulary of the properties about nodes that share an id.              *)
(***************************************************************************)
LinesBefore == Lines(before.tree, <<>>)
LinesNow == Lines(tree, <<>>)

\* The id the last call was given is the id of several nodes of the forest.
Shared == Cardinality({i \in DOMAIN LinesBefore : LinesBefore[i].id = call.id}) >= 2

\* The first node with the id of the call in the traversal, and the lines
\* of it and of the nodes below it.
First == CHOOSE i \in DOMAIN LinesBefore :
            /\ LinesBefore[i].id = call.id
            /\ \A j \in 1..(i - 1) : LinesBefore[j].id # call.id
SubtreeOfFirst ==
    {j \in First..Len(LinesBefore) :
        \A k \in (First + 1)..j : Len(LinesBefore[k].above) > Len(LinesBefore[First].above)}

RECURSIVE NodeAt(_, _)
\* The node at a place of the forest.
NodeAt(nodes, place) ==
    IF Len(place) = 1 THEN nodes.items[place[1]]
    ELSE NodeAt(Get(nodes.items[place[1]], "children"), Tail(place))

\* The lines of the forest now that are not of the node addNode made.
OldLinesNow == SelectSeq(LinesNow, LAMBDA l : l.id # LastUuid)

(***************************************************************************)
(* C12  One node per call.  As claimed: when several nodes have the id     *)
(* given, addNode, deleteNode and updateNode change one node, the first    *)
(* with that id in the traversal, and leave the others with that id as     *)
(* they are: one node is added, one subtree is removed, one value is set.  *)
(***************************************************************************)
C12_AsClaimed ==
    /\ (OnForest("addNode") /\ Shared) =>
          /\ OldLinesNow = LinesBefore
          /\ Len(LinesNow) = Len(LinesBefore) + 1
    /\ (OnForest("deleteNode") /\ Shared) =>
          LET kept == (DOMAIN LinesBefore) \ SubtreeOfFirst IN
          /\ Len(LinesNow) = Cardinality(kept)
          /\ \A j \in kept : LinesNow[Cardinality({k \in kept : k <= j})] = LinesBefore[j]
    /\ (OnForest("updateNode") /\ ValueOnly(call.node) /\ Shared) =>
          LinesNow = [LinesBefore EXCEPT ![First].value = call.node.props.value]

(***************************************************************************)
(* C12, amended.  When several nodes have the id given, the three          *)
(* operations act on every one of them the traversal reaches: deleteNode   *)
(* removes every node with that id and what is below it; addNode appends   *)
(* the same new node to, and updateNode merges the patch into, every node  *)
(* with that id that is not below another node with that id.  The nodes    *)
(* with another id are left as they are.                                   *)
(***************************************************************************)
C12_EveryMatch ==
    /\ (OnForest("addNode") /\ Shared) =>
          /\ OldLinesNow = LinesBefore
          /\ Len(LinesNow) = Len(LinesBefore)
                + Cardinality({i \in DOMAIN LinesBefore : Reached(LinesBefore[i], call.id)})
          /\ \A a \in PlaceIds(before.tree, <<>>) :
                (a[2] = call.id /\ call.id \notin Above(a[1])) =>
                   Get(NodeAt(tree, a[1]), "children").items =
                      Append(Get(NodeAt(before.tree, a[1]), "children").items,
                             TreeNodeType(LastUuid.str, "child", "", <<>>))
    /\ (OnForest("deleteNode") /\ Shared) =>
          LinesNow = SelectSeq(LinesBefore, LAMBDA l : ~Gone(l, call.id))
    /\ (OnForest("updateNode") /\ ValueOnly(call.node) /\ Shared) =>
          LinesNow = [i \in DOMAIN LinesBefore |->
                        IF Reached(LinesBefore[i], call.id)
                        THEN [LinesBefore[i] EXCEPT !.value = call.node.props.value]
                        ELSE LinesBefore[i]]

\* A value was given to two nodes with the same id and not to a third one below the first.
C12_Witness ==
    /\ OnForest("updateNode") /\ ValueOnly(call.node) /\ Shared
    /\ Cardinality({i \in DOMAIN LinesNow :
                      LinesNow[i].id = call.id /\ LinesNow[i].value = call.node.props.value}) >= 2
    /\ \E i \in DOMAIN LinesNow :
          LinesNow[i].id = call.id /\ LinesNow[i].value # call.node.props.value

(***************************************************************************)
(* C13  clearStorage, whatever the state, removes "treeData" from the      *)
(* storage, empties the forest and leaves no node active; a store          *)
(* initialized on the storage it left starts with the empty forest.        *)
(***************************************************************************)
C13_ClearStorage ==
    /\ call.op = "clearStorage" =>
          /\ getItem(localStorage, "treeData") = Null
          /\ tree = Arr(<<>>)
          /\ activeNodeId = Null
          /\ out.threw = ""
    /\ (Loaded /\ saved.by = "clearStorage") =>
          /\ tree = Arr(<<>>)
          /\ activeNodeId = Null

\* A store was mounted and loaded on the storage clearStorage left.
C13_Witness ==
    /\ Loaded /\ saved.by = "clearStorage"
    /\ before.call = "usePortTemplate"
    /\ tree = Arr(<<>>)
    /\ localStorage = NoItems

(***************************************************************************)
(* C14  deleteNode and updateNode never change activeNodeId.  After        *)
(* deleteNode(x) with the active node x or a node below x, activeNodeId    *)
(* has the value it had and names no node of the forest.                   *)
(***************************************************************************)
C14_ActiveKept ==
    /\ (call.op \in {"deleteNode", "updateNode"}) => activeNodeId = before.activeNodeId
    /\ (OnForest("deleteNode")
          /\ \E i \in DOMAIN LinesBefore :
                LinesBefore[i].id = before.activeNodeId /\ Gone(LinesBefore[i], call.id)) =>
          /\ activeNodeId = before.activeNodeId
          /\ activeNodeId.str \notin NodeIds(tree)

\* A node above the active node was deleted, other nodes are left, and the
\* active id is the one it was.
C14_Witness ==
    /\ OnForest("deleteNode")
    /\ before.activeNodeId # call.id
    /\ \E i \in DOMAIN LinesBefore :
          LinesBefore[i].id = before.activeNodeId /\ Below(LinesBefore[i], call.id)
    /\ activeNodeId = before.activeNodeId
    /\ activeNodeId.str \notin NodeIds(tree)

(***************************************************************************)
(* Vocabulary of the properties about the set of ids of the forest.        *)
(***************************************************************************)
IdsBefore == NodeIds(before.tree)
IdsNow == NodeIds(tree)

\* The node given to updateNode brings no id but nodeId, and no children but
\* those the nodes it is merged into have.
KeepsNodes(node, nodeId) ==
    /\ node.type = "object"
    /\ ~OtherId(node, nodeId)
    /\ "children" \in DOMAIN node.props =>
          \A a \in PlaceIds(before.tree, <<>>) :
             (a[2] = nodeId /\ nodeId \notin Above(a[1])) =>
                Get(NodeAt(before.tree, a[1]), "children") = node.props.children

(***************************************************************************)
(* C15  Node lifecycle.  As claimed: the set of ids of the forest of a     *)
(* store gets a new member only through addNode, add-root and setTree (the *)
(* load of a store is a setTree), loses one only through deleteNode,       *)
(* clearStorage and setTree, and is the same after updateNode with every   *)
(* patch, after setActiveNodeId and after handleSave.                      *)
(***************************************************************************)
C15_AsClaimed ==
    call.op # "usePortTemplate" =>
       /\ ~(IdsNow \subseteq IdsBefore) => call.op \in {"addNode", "addRoot", "setTree", "useEffect"}
       /\ ~(IdsBefore \subseteq IdsNow) => call.op \in {"deleteNode", "clearStorage", "setTree"}
       /\ call.op \in {"updateNode", "setActiveNodeId", "handleSave"} => IdsNow = IdsBefore

(***************************************************************************)
(* C15, amended.  The same, but for updateNode with a patch that carries   *)
(* another id than nodeId or other children than the node has: such a      *)
(* patch renames the node and replaces what is below it, and the set of    *)
(* ids changes with it.  After updateNode with every other patch the set   *)
(* is the same.                                                            *)
(***************************************************************************)
C15_Lifecycle ==
    call.op # "usePortTemplate" =>
       LET patched == call.op = "updateNode" /\ ~KeepsNodes(call.node, call.id) IN
       /\ ~(IdsNow \subseteq IdsBefore) =>
             (call.op \in {"addNode", "addRoot", "setTree", "useEffect"} \/ patched)
       /\ ~(IdsBefore \subseteq IdsNow) =>
             (call.op \in {"deleteNode", "clearStorage", "setTree"} \/ patched)
       /\ (call.op \in {"setActiveNodeId", "handleSave"}
             \/ (call.op = "updateNode" /\ ~patched)) => IdsNow = IdsBefore

\* A node with two nodes below it was given a value: the forest is another, its ids are the same.
C15_Witness ==
    /\ OnForest("updateNode") /\ Hit
    /\ KeepsNodes(call.node, call.id)
    /\ tree # before.tree
    /\ Cardinality(IdsNow) >= 3
    /\ call.id = LinesBefore[1].id

(***************************************************************************)
(* C16  handleSave, whatever the state and whatever the storage holds      *)
(* under "treeData", leaves under it a text that reads back as the tree    *)
(* in memory, and leaves the tree and activeNodeId as they are.            *)
(***************************************************************************)
C16_HandleSave ==
    call.op = "handleSave" =>
       LET stored == getItem(localStorage, "treeData") IN
       /\ stored # Null
       /\ JSONparse(stored.text).ok
       /\ JSONparse(stored.text).value = tree
       /\ tree = before.tree
       /\ activeNodeId = before.activeNodeId
       /\ DOMAIN localStorage = DOMAIN before.localStorage \cup {"treeData"}

\* A tree with a node was saved over a text that could not be parsed, with a node active.
C16_Witness ==
    /\ call.op = "handleSave"
    /\ Unparseable(TextBefore)
    /\ TextBefore.text # <<>>
    /\ IsForest(tree) /\ tree.items # <<>>
    /\ activeNodeId # Null

(***************************************************************************)
(* C17  A store starts with the empty forest and no active node; when the  *)
(* storage holds nothing under "treeData" its initialization leaves the    *)
(* forest empty and no node active, and does not write to the storage.     *)
(***************************************************************************)
C17_Initial ==
    /\ pc = "constructed" => (tree = Arr(<<>>) /\ activeNodeId = Null)
    /\ (Loaded /\ TextBefore = Null) =>
          /\ tree = Arr(<<>>)
          /\ activeNodeId = Null
          /\ localStorage = before.localStorage
          /\ out = Quiet

\* The first store of a page was initialized on a storage that held nothing.
C17_Witness ==
    /\ Loaded /\ TextBefore = Null
    /\ before.call = ""
    /\ localStorage = NoItems
    /\ pc = "ready"

(***************************************************************************)
(* C18  No call is lost.  Every call of addNode, deleteNode, updateNode    *)
(* and of the header's add is applied to the forest the call before it     *)
(* left, also when several calls are made from one render: the forest      *)
(* after the call is the rewrite of the forest before it.                  *)
(***************************************************************************)
C18_NoLostCall ==
    /\ OnForest("addNode") =>
          tree = addNode_updateTree(before.tree, call.id.str,
                                    TreeNodeType(LastUuid.str, "child", "", <<>>))
    /\ OnForest("deleteNode") => tree = deleteNode_updateTree(before.tree, call.id.str)
    /\ OnForest("updateNode") => tree = updateNode_updateTree(before.tree, call.id.str, call.node)
    /\ OnForest("addRoot") => tree = PortTemplateHeader_newTree(before.tree, LastUuid.str)

(***************************************************************************)
(* C19  handleSave always ends well.  As claimed: every call of handleSave *)
(* shows the confirmation and raises nothing, also when the storage        *)
(* refuses the write.                                                      *)
(***************************************************************************)
C19_AsClaimed ==
    call.op = "handleSave" =>
       /\ out.alert = "Template saved to localStorage!"
       /\ out.threw = ""

(***************************************************************************)
(* C19, amended.  A call of handleSave whose write the storage accepts     *)
(* shows the confirmation and raises nothing; a call whose write the       *)
(* storage refuses raises the error of the storage, shows no confirmation  *)
(* and leaves storage, tree and activeNodeId as they were.                 *)
(***************************************************************************)
C19_SaveOrThrow ==
    call.op = "handleSave" =>
       \/ /\ out = Alerted("Template saved to localStorage!")
          /\ getItem(localStorage, "treeData") = Text(JSONstringify(before.tree))
       \/ /\ out = Threw("QuotaExceededError")
          /\ localStorage = before.localStorage
          /\ tree = before.tree
          /\ activeNodeId = before.activeNodeId

\* The storage refused the text of a tree with a node, and holds what it held before.
C19_Witness ==
    /\ call.op = "handleSave"
    /\ out.threw = "QuotaExceededError"
    /\ out.alert = ""
    /\ tree.items # <<>>
    /\ getItem(localStorage, "treeData") # Text(JSONstringify(tree))

(***************************************************************************)
(* C20  The storage is written by handleSave and clearStorage alone:       *)
(* addNode, deleteNode, updateNode, setActiveNodeId, setTree, the header's *)
(* add and the initialization of a store leave what is under "treeData"    *)
(* as it was.                                                              *)
(***************************************************************************)
C20_StorageFrame ==
    (call.op \in {"addNode", "deleteNode", "updateNode", "setActiveNodeId", "setTree",
                  "addRoot", "usePortTemplate", "useEffect"}) =>
       /\ localStorage = before.localStorage
       /\ getItem(localStorage, "treeData") = TextBefore

\* setTree gave the store another tree than the one the storage holds the text of.
C20_Witness ==
    /\ call.op = "setTree"
    /\ TextBefore # Null
    /\ JSONparse(TextBefore.text).ok
    /\ IsForest(JSONparse(TextBefore.text).value)
    /\ tree # JSONparse(TextBefore.text).value
    /\ getItem(localStorage, "treeData") = TextBefore

(***************************************************************************)
(* C21  Save and clear are idempotent.  A handleSave that follows a        *)
(* handleSave, and a clearStorage that follows a clearStorage, leave the   *)
(* storage, the forest and activeNodeId as the first one left them.        *)
(***************************************************************************)
C21_Idempotent ==
    ((call.op = "handleSave" /\ before.call = "handleSave")
        \/ (call.op = "clearStorage" /\ before.call = "clearStorage")) =>
       /\ localStorage = before.localStorage
       /\ tree = before.tree
       /\ activeNodeId = before.activeNodeId

\* A tree with a node was saved twice in a row, with a node active.
C21_Witness ==
    /\ call.op = "handleSave" /\ before.call = "handleSave"
    /\ IsForest(tree) /\ tree.items # <<>>
    /\ activeNodeId # Null
    /\ getItem(localStorage, "treeData") = Text(JSONstringify(tree))

(***************************************************************************)
(* C22  setActiveNodeId(x) makes x the active id for every x, the id of a  *)
(* node, an id of no node or none, and leaves the forest and the storage   *)
(* as they are.                                                            *)
(***************************************************************************)
C22_SetActive ==
    call.op = "setActiveNodeId" =>
       /\ activeNodeId = call.id
       /\ tree = before.tree
       /\ localStorage = before.localStorage
       /\ out = Quiet

\* An id of no node was made active in a forest that has nodes, in place of another.
C22_Witness ==
    /\ OnForest("setActiveNodeId")
    /\ call.id # Null /\ ~Hit
    /\ tree.items # <<>>
    /\ activeNodeId = call.id
    /\ before.activeNodeId # call.id

(***************************************************************************)
(* C29  The storage holds the last save or clear.  From a storage that     *)
(* starts empty, a store that is initialized holds the forest that was in  *)
(* memory at the last handleSave, and the empty forest when clearStorage   *)
(* came after it or nothing was ever saved; what was done to the forest    *)
(* after that save is not in it.                                           *)
(***************************************************************************)
C29_LastSaveOrClear ==
    Loaded =>
       /\ saved.by = "handleSave" => tree = saved.tree
       /\ saved.by \in {"", "clearStorage"} => tree = Arr(<<>>)

\* A store was initialized after a save and holds the forest saved, in
\* which the node made last is not.
C29_Witness ==
    /\ Loaded /\ before.call = "usePortTemplate"
    /\ saved.by = "handleSave"
    /\ tree = saved.tree /\ tree.items # <<>>
    /\ uuidCounter >= 2
    /\ LastUuid.str \notin NodeIds(tree)

(***************************************************************************)
(* C30  deleteNode is idempotent and commutative.  After deleteNode(a),    *)
(* deleting a again leaves the forest as it is, and for every id b,        *)
(* deleting b gives the forest that deleting b first and a after it gives, *)
(* also when one of the two nodes is below the other.                      *)
(***************************************************************************)
C30_DeleteAlgebra ==
    OnForest("deleteNode") =>
       /\ deleteNode_updateTree(tree, call.id.str) = tree
       /\ \A b \in TargetIds(before.tree) :
             deleteNode_updateTree(tree, b) =
                deleteNode_updateTree(deleteNode_updateTree(before.tree, b), call.id.str)

\* A node was deleted that had a node below it, and another node is left.
C30_Witness ==
    /\ OnForest("deleteNode") /\ Hit
    /\ \E i \in DOMAIN LinesBefore : Below(LinesBefore[i], call.id)
    /\ tree.items # <<>>
    /\ tree # before.tree

(***************************************************************************)
(* Vocabulary of the properties about a node given with children.          *)
(***************************************************************************)
\* The node given to updateNode carries children.
CarriesChildren(node) == node.type = "object" /\ "children" \in DOMAIN node.props

\* The places of the nodes updateNode rewrites: those with the id of the
\* call that have no node with that id above them.
Targets ==
    {c[1] : c \in {d \in PlaceIds(before.tree, <<>>) :
                     d[2] = call.id /\ call.id \notin Above(d[1])}}

RECURSIVE Outside(_, _, _)
\* The forest without the nodes at the places given and what is below them:
\* a mark is left where each was.
Outside(nodes, place, places) ==
    IF nodes.type # "array" THEN nodes
    ELSE Arr([i \in DOMAIN nodes.items |->
            IF Append(place, i) \in places THEN Str("here")
            ELSE With(nodes.items[i], "children",
                      Outside(Get(nodes.items[i], "children"), Append(place, i), places))])

\* The node at the place has the children the call gave, as given.
ChildrenAsGiven(t) == Get(NodeAt(tree, t), "children") = call.node.props.children

(***************************************************************************)
(* C23  As claimed: updateNode(T.id, patch) with a patch that carries      *)
(* children gives T the children of the patch as they are, and every node  *)
(* outside the subtree of T is as it was.                                  *)
(***************************************************************************)
C23_AsClaimed ==
    (OnForest("updateNode") /\ CarriesChildren(call.node)) =>
       \A t \in Targets :
          /\ ChildrenAsGiven(t)
          /\ Outside(tree, <<>>, {t}) = Outside(before.tree, <<>>, {t})

(***************************************************************************)
(* C23, amended.  updateNode(id, patch) with a patch that carries children *)
(* gives the children of the patch, as they are, to every node with that   *)
(* id that has no node with that id above it; what such a node had below   *)
(* it is dropped, and every node outside the subtrees of these nodes is as *)
(* it was.                                                                 *)
(***************************************************************************)
C23_ChildrenReplaced ==
    (OnForest("updateNode") /\ CarriesChildren(call.node)) =>
       /\ \A t \in Targets : ChildrenAsGiven(t)
       /\ Outside(tree, <<>>, Targets) = Outside(before.tree, <<>>, Targets)

\* A node below a root that had a child was given one child with its own id:
\* it has that child now, as given, and its old child is gone.
C23_Witness ==
    /\ OnForest("updateNode") /\ CarriesChildren(call.node)
    /\ UniqueIds(before.tree)
    /\ \E t \in Targets :
          /\ Len(t) = 2
          /\ Get(NodeAt(before.tree, t), "children").items # <<>>
          /\ call.id.str \in NodeIds(call.node.props.children)
          /\ ChildrenAsGiven(t)
          /\ NodeIds(Get(NodeAt(before.tree, t), "children")) \cap NodeIds(tree) = {}

(***************************************************************************)
(* Vocabulary of the properties about the components.                      *)
(***************************************************************************)
\* The last step was an event of a component on a forest.
OnScreen == ui # Headless /\ ui.event # "" /\ IsForest(before.tree)

\* The last step was this event.
Did(what) == ui # Headless /\ ui.event = what /\ IsForest(before.tree)

\* The last step was a call of the store that came from no component.
Direct(op) == ui # Headless /\ ui.event = "" /\ OnForest(op)

\* The nodes that were read-only before the last step and are still in the forest.
ReadOnlyKept ==
    {c \in TreeNodes(before.tree, <<>>) :
        OrFalse(Get(c[2], "readOnly")) /\ c[1] \in KeysOf(tree)}

\* The read-only nodes have the value they had.
ValuesKept == \A c \in ReadOnlyKept : Get(NodeOf(tree, c[1]), "value") = Get(c[2], "value")

\* A value given to the store's updateNode is the value of the nodes it is
\* merged into, read-only or not, and nothing is thrown.
ValueApplied ==
    (Direct("updateNode") /\ ValueOnly(call.node)) =>
       /\ out = Quiet
       /\ \A c \in TreeNodes(before.tree, <<>>) :
             (c[2].props.id = call.id /\ \A i \in 1..(Len(c[1]) - 1) : c[1][i] # call.id) =>
                Get(NodeOf(tree, c[1]), "value") = call.node.props.value

(***************************************************************************)
(* C24  As claimed: no event of the components changes the value of a node *)
(* that is read-only, and the store's updateNode gives a read-only node    *)
(* the value it is called with.                                            *)
(***************************************************************************)
C24_AsClaimed == (OnScreen => ValuesKept) /\ ValueApplied

(***************************************************************************)
(* C24, amended.  In a forest with unique ids, no event of the components  *)
(* changes the value of a node that is read-only; the store's updateNode   *)
(* gives a read-only node the value it is called with.                     *)
(***************************************************************************)
C24_ReadOnlyGate == ((OnScreen /\ UniqueIds(before.tree)) => ValuesKept) /\ ValueApplied

\* Text was typed into a node of a forest with unique ids that has a
\* read-only node with a value of its own, and that node has its value still.
C24_Witness ==
    /\ Did("type") /\ UniqueIds(before.tree)
    /\ tree # before.tree
    /\ ReadOnlyKept # {}
    /\ ValuesKept

(***************************************************************************)
(* Vocabulary of the properties about the switch.                          *)
(***************************************************************************)
RECURSIVE Flagged(_, _, _, _)
\* The forest with the readOnly of the node of a key set to a flag, and
\* nothing else changed.
Flagged(nodes, above, key, flag) ==
    Arr([i \in DOMAIN nodes.items |->
           LET n == nodes.items[i]
               k == Append(above, Get(n, "id"))
           IN IF k = key THEN With(n, "readOnly", Bool(flag))
              ELSE With(n, "children", Flagged(Get(n, "children"), k, key, flag))])

\* The node of the switch has the negation of the readOnly it had, and
\* nothing else has changed in the forest; the same node is active.
OnlyFlagNegated ==
    /\ tree = Flagged(before.tree, <<>>, ui.key,
                      ~OrFalse(Get(NodeOf(before.tree, ui.key), "readOnly")))
    /\ activeNodeId = before.activeNodeId
    /\ activeNodeId = Get(NodeOf(before.tree, ui.key), "id")

(***************************************************************************)
(* C25  As claimed: a click on the read-only switch of the active node     *)
(* negates the readOnly of that node (absent is false) and changes nothing *)
(* else: not its id, value, label or children, no other node, and not      *)
(* activeNodeId.                                                           *)
(***************************************************************************)
C25_AsClaimed == Did("toggle") => OnlyFlagNegated

(***************************************************************************)
(* C25, amended.  In a forest with unique ids, a click on the read-only    *)
(* switch of the active node negates the readOnly of that node (absent is  *)
(* false) and changes nothing else: not its id, value, label or children,  *)
(* no other node, and not activeNodeId.                                    *)
(***************************************************************************)
C25_Toggle == (Did("toggle") /\ UniqueIds(before.tree)) => OnlyFlagNegated

\* The switch of a read-only node with a node below it, in a forest with
\* unique ids and other nodes, was clicked: the node is not read-only any more.
C25_Witness ==
    /\ Did("toggle") /\ UniqueIds(before.tree)
    /\ Get(NodeOf(before.tree, ui.key), "readOnly") = Bool(TRUE)
    /\ Get(NodeOf(tree, ui.key), "readOnly") = Bool(FALSE)
    /\ Get(NodeOf(tree, ui.key), "children").items # <<>>
    /\ Len(ui.key) >= 2

(***************************************************************************)
(* C26  In every state with unique ids at most one node shows its toolbar: *)
(* a node shows it exactly when activeNodeId is its id, and none is shown  *)
(* when activeNodeId is none or the id of no node.                         *)
(***************************************************************************)
C26_OneToolbar ==
    (ui # Headless /\ pc = "ready" /\ IsForest(tree) /\ UniqueIds(tree)) =>
       /\ Cardinality(DOMAIN ui.isOn) <= 1
       /\ \A c \in TreeNodes(tree, <<>>) : (c[1] \in DOMAIN ui.isOn) <=> (c[2].props.id = activeNodeId)
       /\ (activeNodeId = Null \/ activeNodeId.str \notin NodeIds(tree)) => DOMAIN ui.isOn = {}

\* A node with a node below it and a node above it shows its toolbar, alone.
C26_Witness ==
    /\ ui # Headless /\ pc = "ready" /\ IsForest(tree) /\ UniqueIds(tree)
    /\ \E k \in DOMAIN ui.isOn :
          /\ DOMAIN ui.isOn = {k}
          /\ Len(k) = 2
          /\ Get(NodeOf(tree, k), "children").items # <<>>

(***************************************************************************)
(* Vocabulary of the properties about an active id that names no node.     *)
(***************************************************************************)
Dangling == activeNodeId # Null /\ activeNodeId.str \notin NodeIds(tree)
DanglingBefore ==
    before.activeNodeId # Null /\ before.activeNodeId.str \notin NodeIds(before.tree)
NoToolbar == DOMAIN ui.isOn = {}

(***************************************************************************)
(* C27  The delete button is that of the active node: after every delete   *)
(* of the components activeNodeId is what it was, the id of a node that is *)
(* not in the forest, and no toolbar is shown; this stays so until a click *)
(* on a node, add-root, add-child or clearStorage.                         *)
(***************************************************************************)
C27_DeleteDangles ==
    /\ Did("delete") =>
          /\ call.op = "deleteNode" /\ call.id = before.activeNodeId
          /\ activeNodeId = before.activeNodeId
          /\ Dangling /\ NoToolbar
    /\ (ui # Headless /\ pc = "ready" /\ IsForest(before.tree) /\ DanglingBefore
          /\ ui.event \notin {"click", "header", "add", "clear"}) =>
          /\ activeNodeId = before.activeNodeId
          /\ Dangling /\ NoToolbar

\* After a delete that left nodes in the forest something was typed or
\* saved: the active id is still the id of the deleted node.
C27_Witness ==
    /\ ui # Headless /\ ui.event \in {"type", "save"}
    /\ IsForest(before.tree) /\ DanglingBefore
    /\ before.call = "deleteNode"
    /\ tree.items # <<>>
    /\ Dangling /\ NoToolbar

(***************************************************************************)
(* C28  The store written in PortTemplate.tsx and the hook are equivalent: *)
(* on the same stored text, nothing, a tree or a text that cannot be       *)
(* parsed, and under the same calls, both get through their load effect    *)
(* without an error in the same cases and hold the same forest, the same   *)
(* activeNodeId and the same stored text after every step.                 *)
(***************************************************************************)
C28_Equivalent ==
    inline # NoStore =>
       /\ (inline.pc = "ready") <=> (pc = "ready")
       /\ inline.out.threw = out.threw
       /\ inline.tree = tree
       /\ inline.activeNodeId = activeNodeId
       /\ inline.localStorage = localStorage
====
